---- MODULE Spec2Model ----
(***************************************************************************)
(* A model of src/A4/rtc_changedetection.py: the loader, the normalizer,   *)
(* the extent aligner, the band stacker and the display formatter of the   *)
(* RTC change-detection composite.                                         *)
(*                                                                         *)
(* Three specifications exercise the three groups of functions:            *)
(*   SpecLoad  load_rtc_image, statement by statement                      *)
(*   SpecNorm  normalize_image on a grid and a pair of bound arguments     *)
(*   SpecPipe  crop_to_common_extent, stack_rtc_images, colorize_rtc_stack *)
(***************************************************************************)
EXTENDS Integers, Sequences, FiniteSets

VARIABLES
    \* load_rtc_image
    file,       \* what file_path refers to on disk
    lpc,        \* the statement load_rtc_image is at
    handle,     \* the raster handle `src`: "none", "open" or "closed"
    pending,    \* what the with-body left: nothing, the band read, or an exception
    ret,        \* what the call returned to its caller
    err,        \* the exception the call raised, "none" if it has not
    openTried,  \* rasterio.open was called
    \* normalize_image
    npc,        \* "ready" (arguments bound) or "done"
    nimg,       \* the argument img
    argMin,     \* the argument minval as the caller wrote it
    argMax,     \* the argument maxval as the caller wrote it
    minval,     \* the lower bound the scaling used
    maxval,     \* the upper bound the scaling used
    norm,       \* the returned grid
    \* crop_to_common_extent, stack_rtc_images, colorize_rtc_stack
    images,     \* the caller's grids, in order
    aligned,    \* crop_to_common_extent(*images), <<>> before the call
    realigned,  \* crop_to_common_extent(*aligned), <<>> before the call
    stackArgs,  \* the three grids stack_rtc_images was called with
    stackRes,   \* its outcome: the stack, or the error raised
    rgb         \* colorize_rtc_stack of the stack

loadVars == <<file, lpc, handle, pending, ret, err, openTried>>
normVars == <<npc, nimg, argMin, argMax, minval, maxval, norm>>
pipeVars == <<images, aligned, realigned, stackArgs, stackRes, rgb>>
vars == <<file, lpc, handle, pending, ret, err, openTried,
          npc, nimg, argMin, argMax, minval, maxval, norm,
          images, aligned, realigned, stackArgs, stackRes, rgb>>

(***************************************************************************)
(* Bounds of the model.                                                    *)
(***************************************************************************)
MaxRows == 2   \* rows of a grid given to the aligner, stacker and loader
MaxCols == 2   \* columns of such a grid
MaxTag == 2    \* distinct contents per shape of such a grid
MaxPix == 2    \* elements of a grid given to normalize_image
MaxVal == 2    \* its elements and the explicit bounds range over -MaxVal..MaxVal
MaxBands == 2  \* bands of a raster file

(***************************************************************************)
(* Program constants.                                                      *)
(***************************************************************************)
DefaultMin == -20   \* def normalize_image(img, minval=-20, ...)
DefaultMax == 0     \* def normalize_image(img, ..., maxval=0)
PctLow == 2         \* np.percentile(img, 2)
PctHigh == 98       \* np.percentile(img, 98)
NumBands == 3       \* stack_rtc_images(img1, img2, img3)
FirstBand == 1      \* src.read(1)

(***************************************************************************)
(* Floating-point values.  A value is [n, d]: the rational n/d in lowest   *)
(* terms with d > 0, or, with d = 0, what IEEE division by zero gives:     *)
(* 1/0 is +inf, -1/0 is -inf and 0/0 is NaN.                               *)
(***************************************************************************)
Abs(x) == IF x < 0 THEN -x ELSE x

Sign(x) == IF x < 0 THEN -1 ELSE IF x > 0 THEN 1 ELSE 0

RECURSIVE Gcd(_, _)
Gcd(a, b) == IF b = 0 THEN a ELSE Gcd(b, a % b)

Float(n, d) ==
    IF d = 0 THEN [n |-> Sign(n), d |-> 0]
    ELSE LET g == Gcd(Abs(n), Abs(d))
         IN  [n |-> (Sign(d) * n) \div g, d |-> Abs(d) \div g]

FromInt(x) == [n |-> x, d |-> 1]

NaN == [n |-> 0, d |-> 0]

IsNaN(a) == a.d = 0 /\ a.n = 0

\* a - b, for finite a and b
FSub(a, b) == Float(a.n * b.d - b.n * a.d, a.d * b.d)

\* a + b, for finite a and b
FAdd(a, b) == Float(a.n * b.d + b.n * a.d, a.d * b.d)

\* a * b, for finite a and b
FMul(a, b) == Float(a.n * b.n, a.d * b.d)

\* a / b for finite a and b; a finite value over zero is +-inf, 0/0 is NaN
FDiv(a, b) == Float(a.n * b.d, a.d * b.n)

\* a <= b as IEEE compares: false as soon as one side is NaN
FLeq(a, b) ==
    /\ ~IsNaN(a)
    /\ ~IsNaN(b)
    /\ IF a.d = 0 THEN a.n < 0 \/ (b.d = 0 /\ b.n > 0)
       ELSE IF b.d = 0 THEN b.n > 0
       ELSE a.n * b.d <= b.n * a.d

FLess(a, b) == FLeq(a, b) /\ a # b

Zero == FromInt(0)

One == FromInt(1)

(***************************************************************************)
(* Grids.  A 2D array is [rows, cols, data] with data[<<r, c>>] its        *)
(* element at row r and column c, both counted from 0.                     *)
(***************************************************************************)
Positions(rows, cols) == (0 .. rows - 1) \X (0 .. cols - 1)

Shape(img) == <<img.rows, img.cols>>

SameShape(a, b) == Shape(a) = Shape(b)

(***************************************************************************)
(* Values of variables that hold no result yet.                            *)
(***************************************************************************)
NoGrid == [rows |-> 0, cols |-> 0, data |-> <<>>]

NoArray == [shape |-> <<0, 0, 0>>, data |-> <<>>]

Raised(e) == [err |-> e, value |-> NoArray]

Returned(a) == [err |-> "none", value |-> a]

NotCalled == [err |-> "notcalled", value |-> NoArray]

\* What file_path refers to: nothing, a file that is no raster, or a raster
\* with its bands, whose pixel data may or may not be readable.
Missing == [kind |-> "missing", bands |-> <<>>, readable |-> FALSE]

NotRaster == [kind |-> "notraster", bands |-> <<>>, readable |-> FALSE]

Nothing == [kind |-> "nothing", grid |-> NoGrid]

(***************************************************************************)
(* normalize_image                                                         *)
(***************************************************************************)
\* An argument the caller may leave out, pass as None, or pass as a number.
Unset == [kind |-> "unset", val |-> 0]

None == [kind |-> "none", val |-> 0]

Num(x) == [kind |-> "num", val |-> x]

\* Python binds a parameter the caller left out to the default of the def line.
BindDefault(arg, default) == IF arg.kind = "unset" THEN Num(default) ELSE arg

\* img.ravel(): the elements in row-major order
Flatten(img) ==
    [k \in 1 .. img.rows * img.cols |->
        img.data[<<(k - 1) \div img.cols, (k - 1) % img.cols>>]]

RECURSIVE Insert(_, _)
Insert(x, s) ==
    IF s = <<>> THEN <<x>>
    ELSE IF x <= Head(s) THEN <<x>> \o s
    ELSE <<Head(s)>> \o Insert(x, Tail(s))

RECURSIVE Sort(_)
Sort(s) == IF s = <<>> THEN <<>> ELSE Insert(Head(s), Sort(Tail(s)))

\* np.percentile(img, q), method "linear": with s the sorted elements and
\* N their number, the value at the virtual index q/100 * (N - 1), linearly
\* interpolated between the two order statistics around it.
np_percentile(img, q) ==
    LET s == Sort(Flatten(img))
        N == Len(s)
        lo == (q * (N - 1)) \div 100
        hi == IF lo + 1 < N THEN lo + 1 ELSE N - 1
        g == Float((q * (N - 1)) % 100, 100)
    IN  FAdd(FromInt(s[lo + 1]),
             FMul(FromInt(s[hi + 1] - s[lo + 1]), g))

\* np.maximum and np.minimum propagate NaN
np_maximum(a, b) == IF IsNaN(a) \/ IsNaN(b) THEN NaN ELSE IF FLeq(a, b) THEN b ELSE a

np_minimum(a, b) == IF IsNaN(a) \/ IsNaN(b) THEN NaN ELSE IF FLeq(a, b) THEN a ELSE b

\* np.clip without its upper limit
np_clip_lower_only(x, lo, hi) == np_maximum(x, lo)

\* np.clip(x, lo, hi) is np.minimum(np.maximum(x, lo), hi)
np_clip(x, lo, hi) == np_minimum(np_maximum(x, lo), hi)

\* lines 65-66: the lower bound the scaling uses, from the bound parameter
LowerBound(img, mn) ==
    IF mn.kind = "none" THEN np_percentile(img, PctLow) ELSE FromInt(mn.val)

\* lines 67-68: the upper bound the scaling uses
UpperBound(img, mx) ==
    IF mx.kind = "none" THEN np_percentile(img, PctHigh) ELSE FromInt(mx.val)

\* normalize_image with the subtraction's operands exchanged
normalize_image_swapped(img, mn, mx) ==
    LET lo == LowerBound(img, mn)
        hi == UpperBound(img, mx)
    IN  [rows |-> img.rows, cols |-> img.cols,
         data |-> [p \in Positions(img.rows, img.cols) |->
                     np_clip(FDiv(FSub(lo, FromInt(img.data[p])), FSub(hi, lo)),
                             Zero, One)]]

\* lines 65-70, on the bound parameters mn and mx (None or a number)
normalize_image(img, mn, mx) ==
    LET lo == LowerBound(img, mn)
        hi == UpperBound(img, mx)
    IN  [rows |-> img.rows, cols |-> img.cols,
         data |-> [p \in Positions(img.rows, img.cols) |->
                     np_clip(FDiv(FSub(FromInt(img.data[p]), lo), FSub(hi, lo)),
                             Zero, One)]]

\* The grids and bound arguments normalize_image is exercised on: grids of
\* at most MaxPix elements, each element a number.
NormShapes ==
    {sh \in (1 .. MaxPix) \X (1 .. MaxPix) : sh[1] * sh[2] <= MaxPix}

NormValues == (-MaxVal) .. MaxVal

NormGrids ==
    UNION {{[rows |-> sh[1], cols |-> sh[2], data |-> f] :
                f \in [Positions(sh[1], sh[2]) -> NormValues]} : sh \in NormShapes}

NormArgs == {Unset, None} \cup {Num(x) : x \in NormValues}

InitNorm ==
    /\ npc = "ready"
    /\ nimg \in NormGrids
    /\ argMin \in NormArgs
    /\ argMax \in NormArgs
    /\ minval = NaN
    /\ maxval = NaN
    /\ norm = NoGrid
    \* the other functions' variables, at rest
    /\ file = Missing
    /\ lpc = "rest"
    /\ handle = "none"
    /\ pending = Nothing
    /\ ret = Nothing
    /\ err = "none"
    /\ openTried = FALSE
    /\ images = <<>>
    /\ aligned = <<>>
    /\ realigned = <<>>
    /\ stackArgs = <<>>
    /\ stackRes = Raised("rest")
    /\ rgb = NoArray

\* A call normalize_image(img[, minval][, maxval]).
NormalizeImage ==
    /\ npc = "ready"
    /\ LET mn == BindDefault(argMin, DefaultMin)
           mx == BindDefault(argMax, DefaultMax)
       IN  /\ minval' = LowerBound(nimg, mn)
           /\ maxval' = UpperBound(nimg, mx)
           /\ norm' = normalize_image(nimg, mn, mx)
    /\ npc' = "done"
    /\ UNCHANGED <<nimg, argMin, argMax, loadVars, pipeVars>>

(***************************************************************************)
(* crop_to_common_extent                                                   *)
(***************************************************************************)
Min(S) == CHOOSE x \in S : \A y \in S : x <= y

Max(S) == CHOOSE x \in S : \A y \in S : x >= y

\* img[r0:r1, c0:c1] for 0 <= r0, c0: a slice stops at the array's edge
Slice(img, r0, r1, c0, c1) ==
    LET rStop == Min({r1, img.rows})
        cStop == Min({c1, img.cols})
        rStart == Min({r0, rStop})
        cStart == Min({c0, cStop})
    IN  [rows |-> rStop - rStart, cols |-> cStop - cStart,
         data |-> [p \in Positions(rStop - rStart, cStop - cStart) |->
                     img.data[<<rStart + p[1], cStart + p[2]>>]]]

\* the aligner taking the largest extent instead of the smallest
crop_to_largest_extent(imgs) ==
    LET max_rows == Max({imgs[k].rows : k \in DOMAIN imgs})
        max_cols == Max({imgs[k].cols : k \in DOMAIN imgs})
    IN  [k \in DOMAIN imgs |-> Slice(imgs[k], 0, max_rows, 0, max_cols)]

\* the aligner keeping the bottom-right corner: img[-min_rows:, -min_cols:]
crop_from_bottom_right(imgs) ==
    LET min_rows == Min({imgs[k].rows : k \in DOMAIN imgs})
        min_cols == Min({imgs[k].cols : k \in DOMAIN imgs})
    IN  [k \in DOMAIN imgs |->
            Slice(imgs[k], imgs[k].rows - min_rows, imgs[k].rows,
                           imgs[k].cols - min_cols, imgs[k].cols)]

\* the aligner with a stop index one short: img[0:min_rows - 1, 0:min_cols - 1]
crop_one_short(imgs) ==
    LET min_rows == Min({imgs[k].rows : k \in DOMAIN imgs})
        min_cols == Min({imgs[k].cols : k \in DOMAIN imgs})
    IN  [k \in DOMAIN imgs |->
            Slice(imgs[k], 0, Max({min_rows - 1, 0}), 0, Max({min_cols - 1, 0}))]

\* lines 86-88, on the tuple of the variadic arguments
crop_to_common_extent(imgs) ==
    LET min_rows == Min({imgs[k].rows : k \in DOMAIN imgs})
        min_cols == Min({imgs[k].cols : k \in DOMAIN imgs})
    IN  [k \in DOMAIN imgs |-> Slice(imgs[k], 0, min_rows, 0, min_cols)]

(***************************************************************************)
(* stack_rtc_images and colorize_rtc_stack.  An n-dimensional array is     *)
(* [shape, data] with data[idx] its element at the index tuple idx.        *)
(***************************************************************************)
Indices(shape) ==
    (0 .. shape[1] - 1) \X (0 .. shape[2] - 1) \X (0 .. shape[3] - 1)

\* np.stack(arrays, axis=0): ValueError("all input arrays must have the same
\* shape") unless the arrays have one shape; else arrays[k] becomes slice k.
np_stack(arrays) ==
    IF Cardinality({Shape(arrays[k]) : k \in DOMAIN arrays}) # 1
    THEN Raised("ValueError")
    ELSE LET sh == <<Len(arrays), arrays[1].rows, arrays[1].cols>>
         IN  Returned([shape |-> sh,
                       data |-> [idx \in Indices(sh) |->
                                   arrays[idx[1] + 1].data[<<idx[2], idx[3]>>]]])

\* the stacker cropping its arguments to a common shape before stacking
stack_with_implicit_crop(img1, img2, img3) ==
    np_stack(crop_to_common_extent(<<img1, img2, img3>>))

\* line 105
stack_rtc_images(img1, img2, img3) == np_stack(<<img1, img2, img3>>)

\* np.transpose(a, axes): axis i of the result is axis axes[i] of a
np_transpose(a, axes) ==
    LET sh == [i \in 1 .. 3 |-> a.shape[axes[i] + 1]]
        src(idx) == [j \in 1 .. 3 |-> idx[CHOOSE i \in 1 .. 3 : axes[i] + 1 = j]]
    IN  [shape |-> sh, data |-> [idx \in Indices(sh) |-> a.data[src(idx)]]]

\* the formatter reversing the axes: np.transpose(stack, (2, 1, 0))
colorize_reversed_axes(stack) == np_transpose(stack, <<2, 1, 0>>)

\* line 120
colorize_rtc_stack(stack) == np_transpose(stack, <<1, 2, 0>>)

\* The grids the aligner and the stacker are exercised on.  Neither function
\* reads an element's value, so element <<r, c>> of the grid tagged t holds a
\* number that identifies t, r and c.
Pixel(t, r, c) == (t * (MaxRows + 1) + r) * (MaxCols + 1) + c

Image(rows, cols, t) ==
    [rows |-> rows, cols |-> cols,
     data |-> [p \in Positions(rows, cols) |-> Pixel(t, p[1], p[2])]]

PipeGrids ==
    {Image(r, c, t) : r \in 1 .. MaxRows, c \in 1 .. MaxCols, t \in 0 .. MaxTag}

InitPipe ==
    /\ images \in UNION {[1 .. n -> PipeGrids] : n \in 1 .. NumBands}
    /\ aligned = <<>>
    /\ realigned = <<>>
    /\ stackArgs = <<>>
    /\ stackRes = NotCalled
    /\ rgb = NoArray
    \* the other functions' variables, at rest
    /\ file = Missing
    /\ lpc = "rest"
    /\ handle = "none"
    /\ pending = Nothing
    /\ ret = Nothing
    /\ err = "none"
    /\ openTried = FALSE
    /\ npc = "rest"
    /\ nimg = NoGrid
    /\ argMin = Unset
    /\ argMax = Unset
    /\ minval = NaN
    /\ maxval = NaN
    /\ norm = NoGrid

\* aligned = crop_to_common_extent(*images)
Crop ==
    /\ aligned = <<>>
    /\ aligned' = crop_to_common_extent(images)
    /\ UNCHANGED <<images, realigned, stackArgs, stackRes, rgb, loadVars, normVars>>

\* crop_to_common_extent(*aligned): the aligner on its own output
CropAgain ==
    /\ aligned # <<>>
    /\ realigned = <<>>
    /\ realigned' = crop_to_common_extent(aligned)
    /\ UNCHANGED <<images, aligned, stackArgs, stackRes, rgb, loadVars, normVars>>

\* stack_rtc_images(*grids), on the caller's grids as given or as aligned
Stack ==
    /\ stackRes = NotCalled
    /\ \E grids \in {images, aligned} :
        /\ Len(grids) = NumBands
        /\ stackArgs' = grids
        /\ stackRes' = stack_rtc_images(grids[1], grids[2], grids[3])
    /\ UNCHANGED <<images, aligned, realigned, rgb, loadVars, normVars>>

\* colorize_rtc_stack(stack), on the stack stack_rtc_images returned
Colorize ==
    /\ stackRes.err = "none"
    /\ rgb = NoArray
    /\ rgb' = colorize_rtc_stack(stackRes.value)
    /\ UNCHANGED <<images, aligned, realigned, stackArgs, stackRes, loadVars, normVars>>

(***************************************************************************)
(* load_rtc_image                                                          *)
(***************************************************************************)
\* The raster files: one to MaxBands bands of one shape, the pixel data
\* readable or not.
Rasters ==
    {[kind |-> "raster", bands |-> b, readable |-> ok] :
        b \in {b \in UNION {[1 .. n -> PipeGrids] : n \in 1 .. MaxBands} :
                  \A k \in DOMAIN b : SameShape(b[k], b[1])},
        ok \in BOOLEAN}

Files == {Missing, NotRaster} \cup Rasters

InitLoad ==
    /\ file \in Files
    /\ lpc = "line43"
    /\ handle = "none"
    /\ pending = Nothing
    /\ ret = Nothing
    /\ err = "none"
    /\ openTried = FALSE
    \* the other functions' variables, at rest
    /\ npc = "rest"
    /\ nimg = NoGrid
    /\ argMin = Unset
    /\ argMax = Unset
    /\ minval = NaN
    /\ maxval = NaN
    /\ norm = NoGrid
    /\ images = <<>>
    /\ aligned = <<>>
    /\ realigned = <<>>
    /\ stackArgs = <<>>
    /\ stackRes = Raised("rest")
    /\ rgb = NoArray

\* the existence check left out
path_exists_unchecked(f) == TRUE

\* os.path.exists(file_path)
os_path_exists(f) == f.kind # "missing"

\* lines 43-44: the path does not exist
RaiseNotFound ==
    /\ lpc = "line43"
    /\ ~os_path_exists(file)
    /\ err' = "FileNotFoundError"
    /\ lpc' = "raised"
    /\ UNCHANGED <<file, handle, pending, ret, openTried, normVars, pipeVars>>

\* line 43: the path exists
PassCheck ==
    /\ lpc = "line43"
    /\ os_path_exists(file)
    /\ lpc' = "line45"
    /\ UNCHANGED <<file, handle, pending, ret, err, openTried, normVars, pipeVars>>

\* line 45: rasterio.open succeeds and binds src
Open ==
    /\ lpc = "line45"
    /\ file.kind = "raster"
    /\ openTried' = TRUE
    /\ handle' = "open"
    /\ lpc' = "line46"
    /\ UNCHANGED <<file, pending, ret, err, normVars, pipeVars>>

\* line 45: rasterio.open raises; no handle was made
OpenFails ==
    /\ lpc = "line45"
    /\ file.kind # "raster"
    /\ openTried' = TRUE
    /\ err' = "RasterioIOError"
    /\ lpc' = "raised"
    /\ UNCHANGED <<file, handle, pending, ret, normVars, pipeVars>>

\* line 46: data = src.read(1)
Read ==
    /\ lpc = "line46"
    /\ file.readable
    /\ pending' = [kind |-> "data", grid |-> file.bands[FirstBand]]
    /\ lpc' = "exit"
    /\ UNCHANGED <<file, handle, ret, err, openTried, normVars, pipeVars>>

\* line 46: src.read(1) raises
ReadFails ==
    /\ lpc = "line46"
    /\ ~file.readable
    /\ pending' = [kind |-> "exception", grid |-> NoGrid]
    /\ lpc' = "exit"
    /\ UNCHANGED <<file, handle, ret, err, openTried, normVars, pipeVars>>

\* The with statement leaving its body as written without a context manager
\* (src = open(...); data = src.read(1); src.close()): an exception skips close.
WithExitCloseOnSuccessOnly ==
    /\ lpc = "exit"
    /\ IF pending.kind = "exception"
       THEN /\ err' = "RasterioIOError"
            /\ lpc' = "raised"
            /\ handle' = handle
       ELSE /\ err' = err
            /\ lpc' = "line47"
            /\ handle' = "closed"
    /\ UNCHANGED <<file, pending, ret, openTried, normVars, pipeVars>>

\* line 45, leaving the with block: src.__exit__ closes the handle, then the
\* body's exception, if any, propagates
WithExit ==
    /\ lpc = "exit"
    /\ handle' = "closed"
    /\ IF pending.kind = "exception"
       THEN /\ err' = "RasterioIOError"
            /\ lpc' = "raised"
       ELSE /\ err' = err
            /\ lpc' = "line47"
    /\ UNCHANGED <<file, pending, ret, openTried, normVars, pipeVars>>

\* line 47: return data
Return ==
    /\ lpc = "line47"
    /\ ret' = pending
    /\ lpc' = "done"
    /\ UNCHANGED <<file, handle, pending, err, openTried, normVars, pipeVars>>

(***************************************************************************)
(* The specifications: one per group of functions, the variables of the    *)
(* other groups staying at rest.                                           *)
(***************************************************************************)
NextLoad ==
    \/ RaiseNotFound
    \/ PassCheck
    \/ Open
    \/ OpenFails
    \/ Read
    \/ ReadFails
    \/ WithExit
    \/ Return

NextNorm == NormalizeImage

NextPipe ==
    \/ Crop
    \/ CropAgain
    \/ Stack
    \/ Colorize

SpecLoad == InitLoad /\ [][NextLoad]_vars

SpecNorm == InitNorm /\ [][NextNorm]_vars

SpecPipe == InitPipe /\ [][NextPipe]_vars

Init == InitLoad \/ InitNorm \/ InitPipe

Next == NextLoad \/ NextNorm \/ NextPipe

Spec == Init /\ [][Next]_vars

(***************************************************************************)
(* Properties.                                                             *)
(***************************************************************************)
Shapes(imgs) == [k \in DOMAIN imgs |-> Shape(imgs[k])]

AllSameShape(imgs) == \A k \in DOMAIN imgs : SameShape(imgs[k], imgs[1])

CommonShape(imgs) ==
    <<Min({imgs[k].rows : k \in DOMAIN imgs}), Min({imgs[k].cols : k \in DOMAIN imgs})>>

\* the parameters minval and maxval as Python bound them for the call
BoundMin == BindDefault(argMin, DefaultMin)

BoundMax == BindDefault(argMax, DefaultMax)

\* C1: when the caller of normalize_image leaves minval out, the lower bound
\* used for scaling is the 2nd percentile of the grid's elements, and when
\* the caller leaves maxval out, the upper bound used is the 98th percentile.
C1_UnsetBoundsArePercentiles ==
    npc = "done" =>
        /\ argMin = Unset => minval = np_percentile(nimg, PctLow)
        /\ argMax = Unset => maxval = np_percentile(nimg, PctHigh)

\* C2: whenever the lower bound used is below the upper bound used, the
\* result of normalize_image has the shape of its input and every element
\* lies in [0, 1]; an element below the lower bound maps to 0 and an element
\* above the upper bound maps to 1.
C2_UnitRange ==
    (npc = "done" /\ FLess(minval, maxval)) =>
        /\ SameShape(norm, nimg)
        /\ DOMAIN norm.data = Positions(nimg.rows, nimg.cols)
        /\ \A p \in Positions(nimg.rows, nimg.cols) :
            /\ FLeq(Zero, norm.data[p])
            /\ FLeq(norm.data[p], One)
            /\ FLess(FromInt(nimg.data[p]), minval) => norm.data[p] = Zero
            /\ FLess(maxval, FromInt(nimg.data[p])) => norm.data[p] = One

\* C2's case: explicit bounds minval < maxval, one element below minval
\* clipped to 0, one above maxval clipped to 1 and one strictly between.
C2_Witness ==
    /\ npc = "done"
    /\ argMin.kind = "num"
    /\ argMax.kind = "num"
    /\ argMin.val < argMax.val
    /\ \E p, q \in Positions(nimg.rows, nimg.cols) :
        /\ nimg.data[p] < argMin.val
        /\ norm.data[p] = Zero
        /\ nimg.data[q] > argMax.val
        /\ norm.data[q] = One
    /\ \E g \in NormGrids :
        \E p \in Positions(g.rows, g.cols) :
            LET y == normalize_image(g, argMin, argMax).data[p]
            IN  FLess(Zero, y) /\ FLess(y, One)

\* the grids of nimg's shape that are element-wise at least nimg
GridsAbove(a) ==
    {b \in NormGrids :
        /\ SameShape(a, b)
        /\ \A p \in Positions(a.rows, a.cols) : a.data[p] <= b.data[p]}

NormLeq(x, y) ==
    \A p \in Positions(x.rows, x.cols) : FLeq(x.data[p], y.data[p])

\* C8, as claimed: for any bounds given as numbers and any grids a <= b
\* element-wise, normalize_image(a) <= normalize_image(b) element-wise.
C8_Monotonic ==
    (npc = "done" /\ BoundMin.kind = "num" /\ BoundMax.kind = "num") =>
        \A b \in GridsAbove(nimg) :
            NormLeq(norm, normalize_image(b, BoundMin, BoundMax))

\* C8, amended: for bounds given as numbers with minval < maxval and any
\* grids a <= b element-wise, normalize_image(a) <= normalize_image(b)
\* element-wise.
C8_MonotonicOrderedBounds ==
    (/\ npc = "done"
     /\ BoundMin.kind = "num"
     /\ BoundMax.kind = "num"
     /\ BoundMin.val < BoundMax.val) =>
        \A b \in GridsAbove(nimg) :
            NormLeq(norm, normalize_image(b, BoundMin, BoundMax))

\* C8's case: ordered explicit bounds and a grid above nimg whose result is
\* strictly larger at some element.
C8_Witness ==
    /\ npc = "done"
    /\ argMin.kind = "num"
    /\ argMax.kind = "num"
    /\ argMin.val < argMax.val
    /\ \E b \in GridsAbove(nimg) :
        \E p \in Positions(nimg.rows, nimg.cols) :
            FLess(norm.data[p], normalize_image(b, argMin, argMax).data[p])

\* C3: crop_to_common_extent returns as many grids as it was given, in the
\* same order, each of shape (min of the row counts, min of the column
\* counts).
C3_CommonExtentShape ==
    aligned # <<>> =>
        /\ Len(aligned) = Len(images)
        /\ \A k \in DOMAIN images :
            /\ Shape(aligned[k]) = CommonShape(images)
            /\ DOMAIN aligned[k].data = Positions(CommonShape(images)[1], CommonShape(images)[2])
            /\ aligned[k].data[<<0, 0>>] = images[k].data[<<0, 0>>]

\* C3's case: three grids of pairwise unequal shapes, the common extent
\* being the shape of none of them.
C3_Witness ==
    /\ aligned # <<>>
    /\ Len(images) = NumBands
    /\ \A j, k \in DOMAIN images : j # k => ~SameShape(images[j], images[k])
    /\ \A k \in DOMAIN images : Shape(images[k]) # CommonShape(images)

\* C4: every element of a cropped grid is the element of its original at the
\* same row and column: the crop keeps the top-left corner and changes no
\* value.
C4_TopLeftPreserved ==
    aligned # <<>> =>
        \A k \in DOMAIN images :
            \A p \in Positions(aligned[k].rows, aligned[k].cols) :
                aligned[k].data[p] = images[k].data[p]

\* C4's case: a grid that lost both a row and a column.
C4_Witness ==
    /\ aligned # <<>>
    /\ \E k \in DOMAIN images :
        /\ aligned[k].rows < images[k].rows
        /\ aligned[k].cols < images[k].cols

\* C9: crop_to_common_extent on grids that all have one shape returns grids
\* of that shape, and on a single grid returns that grid.
C9_AlignIdempotent ==
    /\ realigned # <<>> => Shapes(realigned) = Shapes(aligned)
    /\ (aligned # <<>> /\ AllSameShape(images)) => Shapes(aligned) = Shapes(images)
    /\ (aligned # <<>> /\ Len(images) = 1) => aligned = images

\* C9's case: the aligner applied to its own output, after a first call
\* that did crop.
C9_Witness ==
    /\ realigned # <<>>
    /\ Len(images) > 1
    /\ Shapes(aligned) # Shapes(images)

\* C5: the stack of three same-shaped grids has shape (3, H, W) with the
\* grids as bands 0, 1, 2 in argument order, and its display image has shape
\* (H, W, 3) with display[r, c, k] = stack[k, r, c] = (k-th grid)[r, c].
C5_StackThenColorize ==
    rgb # NoArray =>
        LET H == stackArgs[1].rows
            W == stackArgs[1].cols
            stack == stackRes.value
        IN  /\ stack.shape = <<NumBands, H, W>>
            /\ rgb.shape = <<H, W, NumBands>>
            /\ DOMAIN rgb.data = Indices(<<H, W, NumBands>>)
            /\ \A k \in 0 .. NumBands - 1 :
                \A p \in Positions(H, W) :
                    /\ stack.data[<<k, p[1], p[2]>>] = stackArgs[k + 1].data[p]
                    /\ rgb.data[<<p[1], p[2], k>>] = stack.data[<<k, p[1], p[2]>>]
                    /\ rgb.data[<<p[1], p[2], k>>] = stackArgs[k + 1].data[p]

\* C5's case: a display image of three grids with pairwise different
\* contents and more than one row and a different number of columns.
C5_Witness ==
    /\ rgb # NoArray
    /\ stackArgs[1].rows # stackArgs[1].cols
    /\ \A j, k \in DOMAIN stackArgs : j # k => stackArgs[j] # stackArgs[k]

\* C6: stack_rtc_images on three grids that do not all have one shape raises
\* the shape-mismatch error and returns no stack.
C6_ShapeMismatchFails ==
    (stackArgs # <<>> /\ ~AllSameShape(stackArgs)) =>
        /\ stackRes.err = "ValueError"
        /\ stackRes.value = NoArray
        /\ rgb = NoArray

\* C6's case: the stacker was called on grids of unequal shapes.
C6_Witness ==
    /\ stackArgs # <<>>
    /\ ~AllSameShape(stackArgs)
    /\ stackRes.err = "ValueError"

\* C7: for a path that does not exist, load_rtc_image raises
\* FileNotFoundError without ever calling rasterio.open and returns nothing;
\* rasterio.open is called only for a path that exists.
C7_MissingPathRaisesBeforeOpen ==
    /\ file.kind = "missing" =>
        /\ ~openTried
        /\ handle = "none"
        /\ ret = Nothing
        /\ lpc # "line43" => (lpc = "raised" /\ err = "FileNotFoundError")
    /\ openTried => file.kind # "missing"

\* C7's case: the call on a missing path has ended.
C7_Witness ==
    /\ file.kind = "missing"
    /\ lpc = "raised"
    /\ err = "FileNotFoundError"

\* C10: when load_rtc_image has returned or raised, no raster handle is
\* open: the handle of a file that was opened is closed, after a read that
\* failed too; and a call that returns returns the grid of the first band.
C10_HandleScoped ==
    lpc \in {"done", "raised"} =>
        /\ handle # "open"
        /\ handle = "none" => (lpc = "raised" /\ file.kind # "raster")
        /\ lpc = "done" =>
            /\ handle = "closed"
            /\ ret = [kind |-> "data", grid |-> file.bands[FirstBand]]
        /\ lpc = "raised" => ret = Nothing

\* C10's case: the file was opened, the read failed and the error reached
\* the caller.
C10_Witness ==
    /\ lpc = "raised"
    /\ err = "RasterioIOError"
    /\ file.kind = "raster"
    /\ Len(file.bands) > 1
    /\ handle = "closed"

====
